---- MODULE Spec2Model ----
(***************************************************************************)
(* A model of examples/design_search/results.py (RoboGrammar): the script  *)
(* that renders robots recorded in an MCTS search log.                     *)
(*                                                                         *)
(*   - make_robot_from_rule_sequence: the fold of a rule sequence over the *)
(*     graph rewriter (BuildStep, MakeRobot, and the stepwise BuildSpec);  *)
(*   - get_robot_image: the camera set before rendering (GetRobotImage);   *)
(*   - main: the four --type branches, one action per loop iteration       *)
(*     (Spec).                                                             *)
(*                                                                         *)
(* The log (iteration_df) is an input.  It is represented by its length    *)
(* len_df and by the parameters of its columns (tie, bad_row, bad_index):  *)
(* DfResult(row) and DfRuleSeq(row) give the cells of row `row`.  The      *)
(* index column of the log is the iteration number, equal to the row       *)
(* position, so a label lookup df['rule_seq'][index] reads row `index`.    *)
(* The text of a rule_seq cell is taken as the list ast.literal_eval reads *)
(* from it.  An exception that leaves main ends the run: pc = "error".     *)
(***************************************************************************)
EXTENDS Integers, Sequences, FiniteSets, TLC

(***************************************************************************)
(* Bounds of the model.                                                    *)
(***************************************************************************)
\* the log lengths are k * 1000 + d, for k in 0..MaxBlocks and d in Deltas
MaxBlocks == 2
\* the longest rule sequence the stepwise build is run on
MaxSeqLen == 3

(***************************************************************************)
(* Constants of the program.                                               *)
(***************************************************************************)
\* np.arange(0, len(iteration_df) + 1, 1000)
mid_stride == 1000
\* offset = 10 (set again, to the same value, in the percentiles branch)
offset == 10
\* block_size = 1000
block_size == 1000
\* count = 10
count == 10
\* np.linspace(0.0, 1.0, 11)
num_percentiles == 11

Deltas == {0, 1, 5, 12, 101, 500}
LogLengths == {k * block_size + d : k \in 0..MaxBlocks, d \in Deltas}
SampleTypes == {"iterations", "iterations_top", "percentiles", "terrain", "other"}
Tasks == {"FlatTerrainTask", "RidgedTerrainTask"}
\* tie = 1: the results of a block are distinct; tie = 2: they tie in pairs
Ties == {1, 2}

Max2(a, b) == IF a >= b THEN a ELSE b
Min2(a, b) == IF a <= b THEN a ELSE b

VARIABLES
  \* inputs: the command line and the log
  args_type, args_task, len_df, tie, bad_row, bad_index,
  \* main: position, raised exception, loop variables
  pc, err, dir_made, mid_index, index, start_index, i, p,
  \* main: what was done
  emitted, files, saves, last, builds, reads,
  \* make_robot_from_rule_sequence run step by step
  rule_sequence, graph, pos, robot, bpc

input_vars == <<args_type, args_task, len_df, tie, bad_row, bad_index>>
main_vars == <<pc, err, dir_made, mid_index, index, start_index, i, p,
               emitted, files, saves, last, builds, reads>>
build_vars == <<rule_sequence, graph, pos, robot, bpc>>
vars == <<input_vars, main_vars, build_vars>>

(***************************************************************************)
(* The graph rewriter and the grammar (pyrobotdesign, design_search): a    *)
(* graph is a sequence of node labels, a rule rewrites one node with label *)
(* lhs into the nodes rhs, and the matches of a rule are the positions of  *)
(* its lhs, in ascending order.                                            *)
(***************************************************************************)
rules ==
  << [lhs |-> "S", rhs |-> <<"B", "B">>],
     [lhs |-> "B", rhs |-> <<"B", "L">>],
     [lhs |-> "L", rhs |-> <<"J">>] >>

NumRules == Len(rules)

make_initial_graph == <<"S">>

RECURSIVE MatchesFrom(_, _, _)
MatchesFrom(lhs, g, from) ==
  IF from > Len(g) THEN <<>>
  ELSE IF g[from] = lhs THEN <<from>> \o MatchesFrom(lhs, g, from + 1)
  ELSE MatchesFrom(lhs, g, from + 1)

find_matches(lhs, g) == MatchesFrom(lhs, g, 1)

apply_rule(rule, g, match) ==
  SubSeq(g, 1, match - 1) \o rule.rhs \o SubSeq(g, match + 1, Len(g))

\* every node left non-terminal is closed by its terminal form
Terminal(label) ==
  CASE label = "S" -> "body"
    [] label = "B" -> "body"
    [] label = "L" -> "limb_end"
    [] OTHER -> "joint"

NoRobot == [present |-> FALSE, links |-> <<>>]

build_normalized_robot(g) ==
  [present |-> TRUE, links |-> [n \in 1..Len(g) |-> Terminal(g[n])]]

(***************************************************************************)
(* make_robot_from_rule_sequence.                                          *)
(***************************************************************************)
\* rules[r] is a Python list subscript: defined for -len <= r < len
InRange(r) == -NumRules <= r /\ r < NumRules
RuleAt(r) == rules[IF r < 0 THEN r + NumRules + 1 ELSE r + 1]

\* a variant of the loop body that applies the rule at the last match
BuildStepLastMatch(g, r) ==
  LET matches == find_matches(RuleAt(r).lhs, g)
  IN IF matches /= <<>> THEN apply_rule(RuleAt(r), g, matches[Len(matches)]) ELSE g

\* the body of the loop, for an index rules[r] is defined at
BuildStep(g, r) ==
  LET matches == find_matches(RuleAt(r).lhs, g)
  IN IF matches /= <<>> THEN apply_rule(RuleAt(r), g, matches[1]) ELSE g

RECURSIVE Fold(_, _, _)
Fold(g, rule_seq, at) ==
  IF at > Len(rule_seq) THEN [raised |-> FALSE, robot |-> build_normalized_robot(g)]
  ELSE IF ~InRange(rule_seq[at]) THEN [raised |-> TRUE, robot |-> NoRobot]
  ELSE Fold(BuildStep(g, rule_seq[at]), rule_seq, at + 1)

\* the whole call: the robot returned, or IndexError raised
MakeRobot(rule_seq) == Fold(make_initial_graph, rule_seq, 1)

(***************************************************************************)
(* get_robot_image: the camera the viewer renders with.  Angles are        *)
(* multiples num/den of pi.                                                *)
(***************************************************************************)
RobotCamera ==
  [position |-> [kind |-> "base_link", xyz |-> <<0, 0, 0>>],
   yaw |-> [num |-> 1, den |-> 3],
   pitch |-> [num |-> -1, den |-> 6],
   distance |-> [kind |-> "aabb_diagonal_times", value |-> 2]]

TerrainCamera ==
  [position |-> [kind |-> "fixed", xyz |-> <<1, 0, 0>>],
   yaw |-> [num |-> -1, den |-> 3],
   pitch |-> [num |-> -1, den |-> 6],
   distance |-> [kind |-> "fixed", value |-> 5]]

\* a variant that frames the terrain alone like a robot
GetRobotImageSameCamera(rob, task) ==
  [task |-> task, robot |-> rob, camera |-> RobotCamera]

GetRobotImage(rob, task) ==
  [task |-> task, robot |-> rob,
   camera |-> IF rob.present THEN RobotCamera ELSE TerrainCamera]

(***************************************************************************)
(* The log.  Scores are (7 * row) mod 1009, a permutation that is neither  *)
(* ascending nor descending over a block, divided by tie so that up to tie *)
(* rows share one score.  Every rule sequence is valid except, when        *)
(* bad_row >= 0, the one of row bad_row, which holds bad_index.            *)
(***************************************************************************)
DfResult(row) == ((row * 7) % 1009) \div tie

DfRuleSeq(row) ==
  IF row = bad_row THEN <<0, bad_index, 1>>
  ELSE <<row % NumRules, (row \div NumRules) % NumRules, 1>>

BadRows == {3}
BadIndexes == {NumRules, -1, -(NumRules + 1)}

(***************************************************************************)
(* The file names: f"{prefix}_{number:05}.png".                            *)
(***************************************************************************)
RECURSIVE Digits(_)
Digits(x) == IF x < 10 THEN <<x>> ELSE Digits(x \div 10) \o <<x % 10>>

RECURSIVE ZeroPad(_, _)
ZeroPad(ds, width) == IF Len(ds) >= width THEN ds ELSE ZeroPad(<<0>> \o ds, width)

Fmt05(x) == ZeroPad(Digits(x), 5)

FileName(prefix, x) == <<prefix, Fmt05(x), "png">>
TerrainFileName(task) == <<"terrain", <<task>>, "png">>

(***************************************************************************)
(* The windows of the iterations and percentiles branches.                 *)
(***************************************************************************)
StartIndex(mid) == Max2(mid - offset, 0)

\* a variant whose window includes mid + offset
EndIndexInclusive(mid) == Min2(mid + offset + 1, len_df)

\* the end of range(start_index, end_index): the first index not visited
EndIndex(mid) == Min2(mid + offset, len_df)

(***************************************************************************)
(* int(round(percentile * (len(iteration_df) - 1))), for the k-th value of *)
(* np.linspace(0.0, 1.0, 11), in IEEE double arithmetic.  linspace gives   *)
(* k * 0.1 (and 1.0 last); only when k * N / 10 lies exactly half way      *)
(* between two integers does the error of the double matter:               *)
(*   k = 1, 5, 9: the product is the exact half, rounded half to even;     *)
(*   k = 3 (0.30000000000000004): the product lies above the half;         *)
(*   k = 7 (0.7000000000000001): the product lies above the half when it   *)
(*     exceeds 7/6 of the power of two below it, else it is the exact half.*)
(***************************************************************************)
RECURSIVE Pow2Below(_, _)
\* the largest power of two, times ten, that is at most num (num >= 10)
Pow2Below(num, pw) == IF 2 * pw <= num THEN Pow2Below(num, 2 * pw) ELSE pw

HalfEven(q) == IF q % 2 = 0 THEN q ELSE q + 1

RoundProduct(k, N) ==
  LET num == k * N
      q == num \div 10
      r == num % 10
  IN IF r < 5 THEN q
     ELSE IF r > 5 THEN q + 1
     ELSE IF k = 3 THEN q + 1
     ELSE IF k = 7 THEN (IF 6 * num > 7 * Pow2Below(num, 10) THEN q + 1 ELSE HalfEven(q))
     ELSE HalfEven(q)

\* a variant that truncates instead of rounding
PercentileIndexFloor(k) == (k * (len_df - 1)) \div 10

PercentileIndex(k) ==
  IF len_df - 1 < 0 THEN -RoundProduct(k, -(len_df - 1))
  ELSE RoundProduct(k, len_df - 1)

(***************************************************************************)
(* block.sort_values(by='result', ascending=False).reset_index(): the      *)
(* default kind is quicksort, which is not stable, so rows of equal result *)
(* come in an order the library chooses.  Only the first `count` rows of   *)
(* the sorted block are read; `emitted` holds the rows read so far, and    *)
(* the next row of the sorted block is any row, not yet read, whose result *)
(* is the highest among the rows not yet read.                             *)
(***************************************************************************)
RECURSIVE MaxResult(_, _, _)
\* the highest result of the rows lo..hi outside `taken`; -1 when none is left
MaxResult(lo, hi, taken) ==
  IF lo > hi THEN -1
  ELSE IF lo = hi THEN (IF lo \in taken THEN -1 ELSE DfResult(lo))
  ELSE LET half == (lo + hi) \div 2
       IN Max2(MaxResult(lo, half, taken), MaxResult(half + 1, hi, taken))

Range(sq) == {sq[n] : n \in 1..Len(sq)}

BlockEnd(start) == Min2(start + block_size, len_df)

\* what a stable sort would give: among the rows of highest result, the first
NextSortedRowsStable(start, read) ==
  LET taken == Range(read)
      best == MaxResult(start, BlockEnd(start) - 1, taken)
      ties == {row \in start..(BlockEnd(start) - 1) : row \notin taken /\ DfResult(row) = best}
  IN {row \in ties : \A other \in ties : row <= other}

NextSortedRows(start, read) ==
  LET taken == Range(read)
      best == MaxResult(start, BlockEnd(start) - 1, taken)
  IN {row \in start..(BlockEnd(start) - 1) : row \notin taken /\ DfResult(row) = best}

(***************************************************************************)
(* main.                                                                   *)
(***************************************************************************)
NoSave ==
  [name |-> <<"", <<>>, "">>, row |-> -1, robot |-> NoRobot,
   camera |-> [position |-> [kind |-> "unset", xyz |-> <<0, 0, 0>>],
               yaw |-> [num |-> 0, den |-> 1],
               pitch |-> [num |-> 0, den |-> 1],
               distance |-> [kind |-> "unset", value |-> 0]]]

Idle ==
  /\ pc = "idle" /\ err = "" /\ dir_made = FALSE
  /\ mid_index = 0 /\ index = 0 /\ start_index = 0 /\ i = 0 /\ p = 0
  /\ emitted = <<>> /\ files = {} /\ saves = 0 /\ last = NoSave
  /\ builds = 0 /\ reads = 0

BuildIdle ==
  /\ rule_sequence = <<>> /\ graph = make_initial_graph /\ pos = 0
  /\ robot = NoRobot /\ bpc = "idle"

Init ==
  /\ args_type \in SampleTypes
  /\ args_task \in Tasks
  /\ len_df \in LogLengths
  /\ tie \in Ties
  /\ \/ bad_row = -1 /\ bad_index = 0
     \/ bad_row \in BadRows /\ bad_index \in BadIndexes
  /\ pc = "start" /\ err = "" /\ dir_made = FALSE
  /\ mid_index = 0 /\ index = 0 /\ start_index = 0 /\ i = 0 /\ p = 0
  /\ emitted = <<>> /\ files = {} /\ saves = 0 /\ last = NoSave
  /\ builds = 0 /\ reads = 0
  /\ BuildIdle

\* One selected entry: read its rule sequence, build the robot, render it and
\* save the image under `name`.  IndexError leaves main: nothing catches it.
Entry(row, name) ==
  LET built == MakeRobot(DfRuleSeq(row))
      image == GetRobotImage(built.robot, args_task)
  IN /\ reads' = reads + 1
     /\ builds' = builds + 1
     /\ IF built.raised
        THEN /\ pc' = "error"
             /\ err' = "IndexError"
             /\ UNCHANGED <<emitted, files, saves, last>>
        ELSE /\ emitted' = Append(emitted, row)
             /\ files' = files \cup {name}
             /\ saves' = saves + 1
             /\ last' = [name |-> name, row |-> row, robot |-> image.robot,
                         camera |-> image.camera]
             /\ UNCHANGED <<pc, err>>

\* --type iterations
IterationsBegin ==
  /\ pc = "start" /\ args_type = "iterations"
  /\ dir_made' = TRUE
  /\ mid_index' = 0
  /\ index' = StartIndex(0)
  /\ emitted' = <<>>
  /\ pc' = "iterations"
  /\ UNCHANGED <<input_vars, build_vars, err, start_index, i, p, files, saves,
                 last, builds, reads>>

IterationsEntry ==
  /\ pc = "iterations" /\ index < EndIndex(mid_index)
  /\ Entry(index, FileName("iteration", index))
  /\ index' = index + 1
  /\ UNCHANGED <<input_vars, build_vars, dir_made, mid_index, start_index, i, p>>

IterationsNext ==
  /\ pc = "iterations" /\ index >= EndIndex(mid_index)
  /\ IF mid_index + mid_stride < len_df + 1
     THEN /\ mid_index' = mid_index + mid_stride
          /\ index' = StartIndex(mid_index + mid_stride)
          /\ emitted' = <<>>
          /\ UNCHANGED pc
     ELSE /\ pc' = "done"
          /\ UNCHANGED <<mid_index, index, emitted>>
  /\ UNCHANGED <<input_vars, build_vars, err, dir_made, start_index, i, p, files,
                 saves, last, builds, reads>>

\* --type iterations_top
TopBegin ==
  /\ pc = "start" /\ args_type = "iterations_top"
  /\ dir_made' = TRUE
  /\ IF 0 < len_df
     THEN /\ pc' = "iterations_top"
          /\ start_index' = 0 /\ i' = 0 /\ emitted' = <<>>
     ELSE /\ pc' = "done"
          /\ UNCHANGED <<start_index, i, emitted>>
  /\ UNCHANGED <<input_vars, build_vars, err, mid_index, index, p, files, saves,
                 last, builds, reads>>

TopEntry ==
  /\ pc = "iterations_top" /\ i < count
  /\ i < BlockEnd(start_index) - start_index
  /\ \E row \in NextSortedRows(start_index, emitted) :
       Entry(row, FileName("iteration", row))
  /\ i' = i + 1
  /\ UNCHANGED <<input_vars, build_vars, dir_made, mid_index, index, start_index, p>>

\* block.ix[i] on a block of fewer than i + 1 rows: the label i is not in the
\* index of the block, and .ix raises KeyError, which nothing catches
TopEntryMissing ==
  /\ pc = "iterations_top" /\ i < count
  /\ i >= BlockEnd(start_index) - start_index
  /\ pc' = "error"
  /\ err' = "KeyError"
  /\ UNCHANGED <<input_vars, build_vars, dir_made, mid_index, index, start_index,
                 i, p, emitted, files, saves, last, builds, reads>>

TopNext ==
  /\ pc = "iterations_top" /\ i = count
  /\ IF start_index + block_size < len_df
     THEN /\ start_index' = start_index + block_size
          /\ i' = 0 /\ emitted' = <<>>
          /\ UNCHANGED pc
     ELSE /\ pc' = "done"
          /\ UNCHANGED <<start_index, i, emitted>>
  /\ UNCHANGED <<input_vars, build_vars, err, dir_made, mid_index, index, p, files,
                 saves, last, builds, reads>>

\* --type percentiles.  iteration_df.sort_values(by='result') returns a sorted
\* copy, which is dropped: iteration_df keeps the order of the log.
PercentilesBegin ==
  /\ pc = "start" /\ args_type = "percentiles"
  /\ dir_made' = TRUE
  /\ p' = 0
  /\ mid_index' = PercentileIndex(0)
  /\ index' = StartIndex(PercentileIndex(0))
  /\ emitted' = <<>>
  /\ pc' = "percentiles"
  /\ UNCHANGED <<input_vars, build_vars, err, start_index, i, files, saves, last,
                 builds, reads>>

PercentilesEntry ==
  /\ pc = "percentiles" /\ index < EndIndex(mid_index)
  /\ Entry(index, FileName("sorted", index))
  /\ index' = index + 1
  /\ UNCHANGED <<input_vars, build_vars, dir_made, mid_index, start_index, i, p>>

PercentilesNext ==
  /\ pc = "percentiles" /\ index >= EndIndex(mid_index)
  /\ IF p + 1 < num_percentiles
     THEN /\ p' = p + 1
          /\ mid_index' = PercentileIndex(p + 1)
          /\ index' = StartIndex(PercentileIndex(p + 1))
          /\ emitted' = <<>>
          /\ UNCHANGED pc
     ELSE /\ pc' = "done"
          /\ UNCHANGED <<p, mid_index, index, emitted>>
  /\ UNCHANGED <<input_vars, build_vars, err, dir_made, start_index, i, files,
                 saves, last, builds, reads>>

\* --type terrain
Terrain ==
  /\ pc = "start" /\ args_type = "terrain"
  /\ dir_made' = TRUE
  /\ LET image == GetRobotImage(NoRobot, args_task)
         name == TerrainFileName(args_task)
     IN /\ files' = files \cup {name}
        /\ saves' = saves + 1
        /\ last' = [name |-> name, row |-> -1, robot |-> image.robot,
                    camera |-> image.camera]
  /\ pc' = "done"
  /\ UNCHANGED <<input_vars, build_vars, err, mid_index, index, start_index, i, p,
                 emitted, builds, reads>>

\* any other --type (or none): no branch is taken and main returns
NoBranch ==
  /\ pc = "start"
  /\ args_type \notin {"iterations", "iterations_top", "percentiles", "terrain"}
  /\ pc' = "done"
  /\ UNCHANGED <<input_vars, build_vars, err, dir_made, mid_index, index,
                 start_index, i, p, emitted, files, saves, last, builds, reads>>

Next ==
  \/ IterationsBegin \/ IterationsEntry \/ IterationsNext
  \/ TopBegin \/ TopEntry \/ TopEntryMissing \/ TopNext
  \/ PercentilesBegin \/ PercentilesEntry \/ PercentilesNext
  \/ Terrain \/ NoBranch

Spec == Init /\ [][Next]_vars

(***************************************************************************)
(* make_robot_from_rule_sequence, one action per iteration of its loop.    *)
(***************************************************************************)
RuleIndexes == (-(NumRules + 1))..NumRules

SeqsUpTo(len) == UNION {[1..n -> RuleIndexes] : n \in 0..len}

BuildInit ==
  /\ args_type = "other" /\ args_task = "FlatTerrainTask" /\ len_df = 0
  /\ tie = 1 /\ bad_row = -1 /\ bad_index = 0
  /\ Idle
  /\ rule_sequence \in SeqsUpTo(MaxSeqLen)
  /\ graph = make_initial_graph
  /\ pos = 0
  /\ robot = NoRobot
  /\ bpc = "loop"

BuildLoop ==
  /\ bpc = "loop" /\ pos < Len(rule_sequence)
  /\ InRange(rule_sequence[pos + 1])
  /\ graph' = BuildStep(graph, rule_sequence[pos + 1])
  /\ pos' = pos + 1
  /\ UNCHANGED <<input_vars, main_vars, rule_sequence, robot, bpc>>

BuildRaise ==
  /\ bpc = "loop" /\ pos < Len(rule_sequence)
  /\ ~InRange(rule_sequence[pos + 1])
  /\ bpc' = "error"
  /\ UNCHANGED <<input_vars, main_vars, rule_sequence, graph, pos, robot>>

BuildReturn ==
  /\ bpc = "loop" /\ pos = Len(rule_sequence)
  /\ robot' = build_normalized_robot(graph)
  /\ bpc' = "done"
  /\ UNCHANGED <<input_vars, main_vars, rule_sequence, graph, pos>>

BuildNext == BuildLoop \/ BuildRaise \/ BuildReturn

BuildSpec == BuildInit /\ [][BuildNext]_vars

(***************************************************************************)
(* Properties.                                                             *)
(***************************************************************************)
Names(prefix, S) == {FileName(prefix, x) : x \in S}

\* the entries emitted in the current window are from, from + 1, ... in order
Consecutive(sq, from) == \A n \in 1..Len(sq) : sq[n] = from + n - 1

\* the indices x of the log with mid - 10 <= x < mid + 10
HalfOpenWindow(mid) == {x \in (mid - 10)..(mid + 9) : 0 <= x /\ x < len_df}

\* the indices x of the log with mid - 10 <= x <= mid + 10
InclusiveWindow(mid) == {x \in (mid - 10)..(mid + 10) : 0 <= x /\ x < len_df}

MultiplesBelow(bound) == {m \in 0..(bound - 1) : m % 1000 = 0}

\* C1 (as amended): in windowed mode, for each multiple m of 1000 with
\* 0 <= m <= len(log), exactly the entries at the indices x of the log with
\* m - 10 <= x < m + 10 are emitted, in ascending order, each saved under its
\* absolute row index; a run that ends normally has done so for every such
\* multiple, and on a log of length 2500 the files written are those of
\* {0..9}, {990..1009} and {1990..2009}.
C1_WindowedHalfOpen ==
  (args_type = "iterations" /\ pc /= "start") =>
    /\ mid_index % 1000 = 0 /\ mid_index <= len_df
    /\ Consecutive(emitted, Max2(mid_index - 10, 0))
    /\ Range(emitted) \subseteq HalfOpenWindow(mid_index)
    /\ files = Names("iteration",
                     UNION {HalfOpenWindow(m) : m \in MultiplesBelow(mid_index)}
                       \cup Range(emitted))
    /\ saves > 0 => last.name = FileName("iteration", last.row)
    /\ pc = "done" =>
         /\ mid_index + 1000 > len_df
         /\ Range(emitted) = HalfOpenWindow(mid_index)
    /\ (pc = "done" /\ len_df = 2500) =>
         files = Names("iteration", (0..9) \cup (990..1009) \cup (1990..2009))

C1_Witness ==
  args_type = "iterations" /\ pc = "done" /\ len_df = 2500 /\ saves = 50

\* C1 (as claimed): the windows hold every index within 10 of the multiple,
\* both ends included, and a log of length 2500 gives {0..10}, {990..1010},
\* {1990..2010}, {2490..2500}.
C1_Original ==
  (args_type = "iterations" /\ pc = "done") =>
    /\ files = Names("iteration",
                     UNION {InclusiveWindow(m) : m \in MultiplesBelow(len_df + 1)})
    /\ len_df = 2500 =>
         files = Names("iteration", (0..10) \cup (990..1010) \cup (1990..2010)
                                      \cup (2490..2500))

\* the rows of a full block in descending result, rows of equal result in
\* the order of the log
RECURSIVE StableTop(_, _, _)
StableTop(start, read, more) ==
  IF more = 0 THEN read
  ELSE StableTop(start,
                 Append(read, CHOOSE row \in NextSortedRowsStable(start, read) : TRUE),
                 more - 1)

\* C2: in block top-k mode the 10 entries emitted for a block of 1000 are
\* its 10 highest-scoring entries in descending score, entries of equal
\* score in their order in the log, each saved under its iteration index.
C2_Original ==
  (/\ args_type = "iterations_top" /\ pc \in {"iterations_top", "done"}
   /\ i = 10 /\ BlockEnd(start_index) - start_index = 1000) =>
    /\ emitted = StableTop(start_index, <<>>, 10)
    /\ last.name = FileName("iteration", last.row)

\* c is p * N / 10 rounded to a nearest integer
IsRounded(c, k, N) ==
  LET d == 10 * c - k * N IN -5 <= d /\ d <= 5

\* C3 (as amended): in percentile mode the center of the k-th percentile
\* (k = 0..10) is round(k/10 * (n-1)), which on a log of length 101 is
\* 10 * k, and each center c yields exactly the indices x of the log with
\* c - 10 <= x < c + 10, in ascending order, each saved under that index.
C3_PercentileHalfOpen ==
  (args_type = "percentiles" /\ pc /= "start") =>
    /\ p \in 0..10
    /\ IsRounded(mid_index, p, len_df - 1)
    /\ len_df = 101 => mid_index = 10 * p
    /\ Consecutive(emitted, Max2(mid_index - 10, 0))
    /\ Range(emitted) \subseteq HalfOpenWindow(mid_index)
    /\ files = Names("sorted",
                     UNION {HalfOpenWindow(PercentileIndex(k)) : k \in 0..(p - 1)}
                       \cup Range(emitted))
    /\ saves > 0 => last.name = FileName("sorted", last.row)
    /\ pc = "done" =>
         /\ p = 10
         /\ Range(emitted) = HalfOpenWindow(mid_index)

C3_Witness ==
  args_type = "percentiles" /\ pc = "done" /\ len_df = 101 /\ saves = 201

WindowDone == pc = "done" \/ (pc = "percentiles" /\ index >= EndIndex(mid_index))

\* C3 (as claimed): each center c yields every index in [c - 10, c + 10]
\* clamped to the log, both ends included.
C3_Original ==
  (args_type = "percentiles" /\ WindowDone) =>
    /\ len_df = 101 => mid_index = 10 * p
    /\ Range(emitted) = InclusiveWindow(mid_index)

\* row holds the x-th lowest result of the log (x counted from 0)
IsXthLowest(row, x) ==
  /\ Cardinality({j \in 0..(len_df - 1) : DfResult(j) < DfResult(row)}) <= x
  /\ x < Cardinality({j \in 0..(len_df - 1) : DfResult(j) <= DfResult(row)})

\* C4: in percentile mode the entry built and rendered as sorted_x is the
\* entry holding the x-th lowest result of the log.
C4_Original ==
  (args_type = "percentiles" /\ saves > 0) =>
    \A x \in 0..(len_df - 1) :
      last.name = <<"sorted", Fmt05(x), "png">> => IsXthLowest(last.row, x)

\* C5: the build folds the rule sequence in order from the initial graph:
\* an index whose rule has no match carries the graph forward and raises
\* nothing, an index whose rule has matches replaces the graph by the rule
\* applied at the first match, and the robot returned is the normalization
\* of the graph reached after the last index.
C5_Fold ==
  /\ [](pos = 0 => graph = make_initial_graph)
  /\ [][/\ (bpc = "loop" /\ pos < Len(rule_sequence)
              /\ InRange(rule_sequence[pos + 1])) =>
             LET rule == RuleAt(rule_sequence[pos + 1])
                 matches == find_matches(rule.lhs, graph)
             IN /\ pos' = pos + 1 /\ bpc' = "loop"
                /\ matches = <<>> => graph' = graph
                /\ matches /= <<>> => graph' = apply_rule(rule, graph, matches[1])
        /\ (bpc = "loop" /\ pos = Len(rule_sequence)) =>
             /\ bpc' = "done"
             /\ robot' = build_normalized_robot(graph)]_vars

\* rule 1 has no match in the initial graph and is passed over, rule 0 is
\* applied, and rule 1 then has two matches
C5_Witness ==
  /\ bpc = "done" /\ rule_sequence = <<1, 0, 1>>
  /\ robot = [present |-> TRUE, links |-> <<"body", "limb_end", "body">>]

\* C6: a rule index < 0 or >= the number of rules fails that entry alone:
\* nothing is written for it and the run goes on to the later entries.
C6_Original ==
  /\ ~(pc = "error" /\ err = "IndexError")
  /\ (saves > 0 /\ last.row = bad_row) => (0 <= bad_index /\ bad_index < NumRules)

\* C7: with an empty log (terrain mode aside), or with a --type that is not
\* one of the four, the run ends in an error: it does not end normally.
C7_Original ==
  (\/ len_df = 0 /\ args_type \in {"iterations", "iterations_top", "percentiles"}
   \/ args_type \notin {"iterations", "iterations_top", "percentiles", "terrain"}) =>
    pc /= "done"

\* C8: terrain-only mode writes exactly one image, terrain_<task>, of no
\* robot, under the fixed camera (position (1,0,0), yaw -pi/3, pitch -pi/6,
\* distance 5), builds no robot and reads no entry of the log.
C8_TerrainOnly ==
  args_type = "terrain" =>
    /\ builds = 0 /\ reads = 0
    /\ pc /= "error"
    /\ pc = "start" => saves = 0 /\ files = {}
    /\ pc = "done" =>
         /\ saves = 1
         /\ files = {<<"terrain", <<args_task>>, "png">>}
         /\ last.name = <<"terrain", <<args_task>>, "png">>
         /\ ~last.robot.present
         /\ last.camera.position = [kind |-> "fixed", xyz |-> <<1, 0, 0>>]
         /\ last.camera.yaw = [num |-> -1, den |-> 3]
         /\ last.camera.pitch = [num |-> -1, den |-> 6]
         /\ last.camera.distance = [kind |-> "fixed", value |-> 5]

C8_Witness ==
  args_type = "terrain" /\ pc = "done" /\ len_df = 2500 /\ bad_row = 3 /\ saves = 1

\* C9: no file name is written more than once in a run.
C9_Original == saves = Cardinality(files)

\* C10: block top-k mode on a log of n >= 1 valid entries raises nothing,
\* and every block it has finished emitted min(10, block size) entries.
C10_Original ==
  (args_type = "iterations_top" /\ len_df >= 1 /\ bad_row = -1) =>
    /\ pc /= "error"
    /\ (pc = "done" \/ i = 10) =>
         Len(emitted) = Min2(10, BlockEnd(start_index) - start_index)

====
